---- MODULE Spec2Model ----
(***************************************************************************)
(* ServiceNow MCP adapter: the tool dispatcher handle_call_tool            *)
(* (src/main.py) over the record client ServiceNowClient (src/server.py).  *)
(*                                                                         *)
(* Each invocation of handle_call_tool is a coroutine.  It is modelled     *)
(* from its entry to its first suspension point (Call), from the arrival   *)
(* of an HTTP response to the next suspension point or the return          *)
(* (Respond), and across the synchronous calls of the generative model,    *)
(* which hold the event-loop thread (Generated).  The remote platform and  *)
(* the generative API are the environment: they choose the outcome of      *)
(* every request.                                                          *)
(***************************************************************************)
EXTENDS Integers, Sequences, FiniteSets, TLC

VARIABLES
    env,      \* the environment variables that are set (server.py 44-47)
    host,     \* the external host: the tools it calls, how many calls it keeps in flight
    inv,      \* per host slot: the invocation of handle_call_tool running there
    remote,   \* the sys_ids of the records the remote platform holds, in creation order
    started,  \* number of invocations issued so far
    blocked   \* the slot whose synchronous call holds the event-loop thread, or 0

vars == <<env, host, inv, remote, started, blocked>>

(***************************************************************************)
(* Bounds of the model.                                                    *)
(***************************************************************************)
MaxInvocations == 2
MaxVars == 3

Procs == {1, 2}

(***************************************************************************)
(* Python values.  Strings are TLA+ strings, dicts are functions from key  *)
(* strings, lists are sequences.  None is a value of its own: str(None)    *)
(* is "None", and None is falsy.                                           *)
(***************************************************************************)
NoneVal == "<None>"

\* None where a dict is expected (arguments: dict | None, data: Optional[Dict])
NoneDict == [none |-> TRUE]

IsNone(d) == "none" \in DOMAIN d

EmptyDict == <<>>

\* f"{v}" for a string or None
Str(v) == IF v = NoneVal THEN "None" ELSE v

\* bool(v) for a string or None
Truthy(v) == v # NoneVal /\ v # ""

\* d.get(k, default)
Get(d, k, default) == IF k \in DOMAIN d THEN d[k] ELSE default

\* sep.join(parts)
RECURSIVE Join(_, _)
Join(parts, sep) ==
    IF Len(parts) = 0 THEN ""
    ELSE IF Len(parts) = 1 THEN parts[1]
    ELSE parts[1] \o sep \o Join(Tail(parts), sep)

(***************************************************************************)
(* Configuration (server.py 44-47, 63-68, 75-86).                          *)
(***************************************************************************)
EnvVars ==
    {"SERVICENOW_INSTANCE", "SERVICENOW_USERNAME", "SERVICENOW_PASSWORD", "GEMINI_API_KEY"}

\* mutant: only the instance URL is checked
configured_InstanceOnly == "SERVICENOW_INSTANCE" \in env

\* ServiceNowClient.__init__: self.configured
configured ==
    {"SERVICENOW_INSTANCE", "SERVICENOW_USERNAME", "SERVICENOW_PASSWORD"} \subseteq env

\* model = genai.GenerativeModel(...) if GEMINI_API_KEY else None
model == "GEMINI_API_KEY" \in env

(***************************************************************************)
(* Exceptions and the result of an invocation.                             *)
(***************************************************************************)
ValueError(msg) == [type |-> "ValueError", msg |-> msg]

AttributeError == [type |-> "AttributeError", msg |-> "'NoneType' object has no attribute 'get'"]

TypeError(msg) == [type |-> "TypeError", msg |-> msg]

HTTPStatusError == [type |-> "HTTPStatusError", msg |-> "Server error '500 Internal Server Error'"]

\* the request did not get a response: httpx.ConnectError, a timeout (server.py 94-101)
TransportError == [type |-> "ConnectError", msg |-> "All connection attempts failed"]

JSONDecodeError == [type |-> "JSONDecodeError", msg |-> "Expecting value: line 1 column 1 (char 0)"]

GenerativeError == [type |-> "GoogleAPIError", msg |-> "generative API call failed"]

BlockedError == [type |-> "ValueError", msg |-> "response.text requires a valid Part"]

\* every exception class above derives from Exception
ExceptionClasses ==
    {"ValueError", "AttributeError", "TypeError", "HTTPStatusError", "JSONDecodeError",
     "ConnectError", "GoogleAPIError"}

NoResult == [kind |-> "none", text |-> ""]

(***************************************************************************)
(* The record client (server.py 74-128).  A request is what reaches the    *)
(* remote platform: method, path under <instance>/api/now/, JSON body and  *)
(* query parameters.                                                       *)
(***************************************************************************)
\* _request(method, path, data): the request client.request sends (server.py 93-101)
Request(method, path, data) ==
    [method |-> method, path |-> path, json |-> data, params |-> NoneDict]

create_record(table, data) == Request("POST", "table/" \o table, data)

get_record(table, sys_id) == Request("GET", "table/" \o table \o "/" \o Str(sys_id), NoneDict)

update_record(table, sys_id, data) ==
    Request("PATCH", "table/" \o table \o "/" \o Str(sys_id), data)

\* list_records builds its own GET (server.py 118-126)
list_records(table, params) ==
    [method |-> "GET", path |-> "table/" \o table, json |-> NoneDict, params |-> params]

\* the guard at the head of _request (89-90) and of list_records (115-116)
ConfigError(op) ==
    ValueError(IF op = "list_records"
               THEN "ServiceNow client not configured."
               ELSE "ServiceNow client not configured. Check environment variables.")

(***************************************************************************)
(* An invocation: the coroutine's position and locals, and a log of what   *)
(* it did to its collaborators.                                            *)
(***************************************************************************)
Idle ==
    [pc |-> "idle", step |-> "", name |-> "", args |-> EmptyDict,
     calls |-> <<>>, reqs |-> <<>>, got |-> <<>>, prompts |-> <<>>,
     parent |-> EmptyDict, idx |-> 0, created |-> <<>>,
     raw |-> <<>>, data |-> EmptyDict, result |-> NoResult]

Fresh(name, args) == [Idle EXCEPT !.pc = "run", !.name = name, !.args = args]

\* return [types.TextContent(type="text", text=...)]
ReturnText(i, text) ==
    [i EXCEPT !.pc = "done", !.step = "", !.result = [kind |-> "text", text |-> text]]

\* the exception leaves handle_call_tool
Propagate(i, exc) ==
    [i EXCEPT !.pc = "done", !.step = "", !.result = [kind |-> "fault", text |-> exc.msg]]

\* mutant: the boundary catches ValueError only
Caught_ValueErrorOnly(exc) == exc.type = "ValueError"

\* except Exception as e (main.py 228)
Caught(exc) == exc.type \in ExceptionClasses

\* an exception raised in the body: main.py 228-230
Raise(i, exc) ==
    IF Caught(exc) THEN ReturnText(i, "Error: " \o exc.msg) ELSE Propagate(i, exc)

Called(i, op) == [i EXCEPT !.calls = Append(@, op)]

\* await client.request(...) / client.get(...): the request is sent, the coroutine suspends
Issue(i, op, req, step) ==
    [i EXCEPT !.pc = "await", !.step = step, !.calls = Append(@, op), !.reqs = Append(@, req)]

\* mutant: a request equal to one another invocation has sent is suppressed
Await_Deduplicates(i, op, req, step) ==
    IF ~configured THEN Raise(Called(i, op), ConfigError(op))
    ELSE IF \E q \in Procs : req \in {inv[q].reqs[k] : k \in 1..Len(inv[q].reqs)}
    THEN ReturnText(Called(i, op), "Duplicate request suppressed.")
    ELSE Issue(i, op, req, step)

\* await sn_client.<op>(...) under the top-level try only
Await(i, op, req, step) ==
    IF ~configured THEN Raise(Called(i, op), ConfigError(op)) ELSE Issue(i, op, req, step)

(***************************************************************************)
(* The field mappings sent to the remote platform (main.py 19-24, 29-36,   *)
(* 41-51, 56-63, 68-74, 80-86, 93-96, 101-106).                            *)
(***************************************************************************)
KbData(a) ==
    [short_description |-> Get(a, "short_description", NoneVal),
     text |-> Get(a, "article_body", NoneVal),
     workflow_state |-> Get(a, "workflow_state", "draft"),
     kb_knowledge_base |-> Get(a, "kb_knowledge_base", NoneVal)]

ClientScriptData(a) ==
    [name |-> Get(a, "name", NoneVal),
     table |-> Get(a, "table", NoneVal),
     script |-> Get(a, "script", NoneVal),
     type |-> Get(a, "script_type", NoneVal),
     field |-> Get(a, "field_name", NoneVal),
     active |-> Get(a, "active", TRUE)]

\* mutant: the caller-facing names table and when are sent as they are
BusinessRuleData_Untranslated(a) ==
    [name |-> Get(a, "name", NoneVal),
     table |-> Get(a, "table", NoneVal),
     script |-> Get(a, "script", NoneVal),
     when |-> Get(a, "when", NoneVal),
     action_insert |-> Get(a, "action_insert", TRUE),
     action_update |-> Get(a, "action_update", FALSE),
     action_delete |-> Get(a, "action_delete", FALSE),
     action_query |-> Get(a, "action_query", FALSE),
     active |-> Get(a, "active", TRUE)]

BusinessRuleData(a) ==
    [name |-> Get(a, "name", NoneVal),
     collection |-> Get(a, "table", NoneVal),
     script |-> Get(a, "script", NoneVal),
     when_toggle |-> Get(a, "when", NoneVal),
     action_insert |-> Get(a, "action_insert", TRUE),
     action_update |-> Get(a, "action_update", FALSE),
     action_delete |-> Get(a, "action_delete", FALSE),
     action_query |-> Get(a, "action_query", FALSE),
     active |-> Get(a, "active", TRUE)]

\* f"{arguments.get('duration_seconds')}": an integer in decimal, or "None"
FormatSeconds(a) ==
    IF "duration_seconds" \in DOMAIN a THEN ToString(a["duration_seconds"]) ELSE "None"

SlaData(a) ==
    [name |-> Get(a, "name", NoneVal),
     collection |-> Get(a, "table", NoneVal),
     duration |-> "PT" \o FormatSeconds(a) \o "S",
     start_condition |-> Get(a, "start_condition", NoneVal),
     stop_condition |-> Get(a, "stop_condition", NoneVal),
     pause_condition |-> Get(a, "pause_condition", NoneVal)]

ProducerData(a) ==
    [name |-> Get(a, "name", NoneVal),
     table_name |-> Get(a, "table_name", NoneVal),
     short_description |-> Get(a, "short_description", NoneVal),
     category |-> Get(a, "category_sys_id", NoneVal),
     script |-> Get(a, "script", NoneVal)]

\* mutant: the codes of string and choice are exchanged
TypeCode_Exchanged(t) == IF t = "string" THEN 1 ELSE IF t = "choice" THEN 6 ELSE 2

\* 6 if var.get("type") == "string" else 1 if var.get("type") == "choice" else 2
TypeCode(t) == IF t = "string" THEN 6 ELSE IF t = "choice" THEN 1 ELSE 2

ProducerVarData(producer_id, var) ==
    [cat_item |-> producer_id,
     name |-> Get(var, "name", NoneVal),
     question_text |-> Get(var, "label", NoneVal),
     type |-> TypeCode(Get(var, "type", NoneVal)),
     mandatory |-> Get(var, "mandatory", FALSE)]

SetData(a) ==
    [name |-> Get(a, "name", NoneVal),
     description |-> Get(a, "description", NoneVal)]

SetVarData(set_id, var) ==
    [variable_set |-> set_id,
     name |-> Get(var, "name", NoneVal),
     question_text |-> Get(var, "label", NoneVal),
     mandatory |-> Get(var, "mandatory", FALSE)]

\* mutant: the number stays in the payload
UpdateData_KeepsNumber(a) == a

\* update_data = {k: v for k, v in arguments.items() if k != "number"}
UpdateData(a) == [k \in DOMAIN a \ {"number"} |-> a[k]]

\* mutant: the state clause comes first
ListQuery_StateFirst(a) ==
    LET priority == Get(a, "priority", NoneVal)
        state == Get(a, "state", NoneVal)
        query_parts ==
            (IF Truthy(state) THEN <<"state=" \o Str(state)>> ELSE <<>>)
            \o (IF Truthy(priority) THEN <<"priority=" \o Str(priority)>> ELSE <<>>)
    IN IF Len(query_parts) > 0 THEN Join(query_parts, "^") ELSE "ORDERBYDESCsys_created_on"

\* the query of list_incidents (main.py 159-163)
ListQuery(a) ==
    LET priority == Get(a, "priority", NoneVal)
        state == Get(a, "state", NoneVal)
        query_parts ==
            (IF Truthy(priority) THEN <<"priority=" \o Str(priority)>> ELSE <<>>)
            \o (IF Truthy(state) THEN <<"state=" \o Str(state)>> ELSE <<>>)
    IN IF Len(query_parts) > 0 THEN Join(query_parts, "^") ELSE "ORDERBYDESCsys_created_on"

DefaultLimit == 10

ListParams(a) ==
    [sysparm_query |-> ListQuery(a), sysparm_limit |-> Get(a, "limit", DefaultLimit)]

\* mutant: the lookup asks for the default page of results
NumberParams_NoLimit(a) ==
    [sysparm_query |-> "number=" \o Str(Get(a, "number", NoneVal)), sysparm_limit |-> DefaultLimit]

\* the lookup of get_incident and update_incident (main.py 119-120, 142-143)
NumberParams(a) ==
    [sysparm_query |-> "number=" \o Str(Get(a, "number", NoneVal)), sysparm_limit |-> 1]

(***************************************************************************)
(* The text of a generative response, as a sequence of chunks.  A chunk is *)
(* a fence marker, a run of whitespace, a JSON object, a double quote or   *)
(* other text.  strip, in and split act on the chunks as the Python string *)
(* methods act on the characters: the plain fence marker is a substring of *)
(* the json fence marker, so a split on the plain marker also cuts at a    *)
(* json fence marker and leaves the word json behind it.                   *)
(***************************************************************************)
\* the triple-backquote markers; the backquote is written ' here
FenceJson == "'''json"

Fence == "'''"

Ws == "\n"

Quote == "\""

ObjA == "{\"short_description\": \"vpn down\", \"urgency\": 2}"

ObjB == "{\"short_description\": \"printer jam\"}"

JsonChunks == {ObjA, ObjB}

\* what json.loads makes of a JSON chunk
JsonValue(c) ==
    IF c = ObjA THEN [short_description |-> "vpn down", urgency |-> 2]
    ELSE [short_description |-> "printer jam"]

\* json.dumps(structured_data, indent=2); the layout is not modelled
JsonDumps(d) == CHOOSE c \in JsonChunks : JsonValue(c) = d

\* the string the chunks spell
Text(t) == Join(t, "")

\* marker in chunk
ChunkHas(c, marker) == c = marker \/ (marker = Fence /\ c = FenceJson)

\* marker in text
Contains(t, marker) == \E k \in 1..Len(t) : ChunkHas(t[k], marker)

FirstAt(t, marker) ==
    IF Contains(t, marker)
    THEN CHOOSE k \in 1..Len(t) :
             ChunkHas(t[k], marker) /\ \A j \in 1..(k - 1) : ~ChunkHas(t[j], marker)
    ELSE 0

\* text.split(marker)[0]
Before(t, marker) ==
    IF FirstAt(t, marker) = 0 THEN t ELSE SubSeq(t, 1, FirstAt(t, marker) - 1)

\* what follows the first occurrence of marker
After(t, marker) ==
    LET k == FirstAt(t, marker)
    IN (IF t[k] # marker THEN <<"json">> ELSE <<>>) \o SubSeq(t, k + 1, Len(t))

\* text.split(marker)[1], when marker occurs in text
SplitSecond(t, marker) == Before(After(t, marker), marker)

RECURSIVE LStrip(_)
LStrip(t) == IF Len(t) > 0 /\ t[1] = Ws THEN LStrip(Tail(t)) ELSE t

RECURSIVE RStrip(_)
RStrip(t) == IF Len(t) > 0 /\ t[Len(t)] = Ws THEN RStrip(SubSeq(t, 1, Len(t) - 1)) ELSE t

\* text.strip()
Strip(t) == RStrip(LStrip(t))

\* text.replace(double quote, empty string)
RemoveQuotes(t) == SelectSeq(t, LAMBDA c : c # Quote)

\* mutant: the fences are not removed
ExtractJson_WholeText(raw) == Strip(raw)

\* main.py 187-191: the text handed to json.loads
ExtractJson(raw) ==
    LET text == Strip(raw)
    IN IF Contains(text, FenceJson)
       THEN Strip(Before(SplitSecond(text, FenceJson), Fence))
       ELSE IF Contains(text, Fence)
       THEN Strip(Before(SplitSecond(text, Fence), Fence))
       ELSE text

\* json.loads(text) succeeds: one JSON value, whitespace around it allowed
JsonOk(t) == Len(Strip(t)) = 1 /\ Strip(t)[1] \in JsonChunks

\* json.loads(text)
JsonLoads(t) == JsonValue(Strip(t)[1])

(***************************************************************************)
(* The prompts sent to the generative model (main.py 176-184, 203-211,     *)
(* 214).                                                                   *)
(***************************************************************************)
IncidentPrompt(a) ==
    [kind |-> "smart_incident", input |-> Str(Get(a, "unstructured_text", NoneVal))]

KbPrompt(a) ==
    [kind |-> "smart_kb_generator",
     input |-> Str(Get(a, "target_audience", "General Users")) \o "|"
               \o Str(Get(a, "source_content", NoneVal))]

TitlePrompt(kb_body) == [kind |-> "title", input |-> Text(kb_body)]

\* model.generate_content(prompt): a synchronous call, the coroutine does not suspend
Generate(i, prompt, step) ==
    [i EXCEPT !.pc = "generate", !.step = step, !.prompts = Append(@, prompt)]

NotConfiguredText == "Gemini AI is not configured. Please set GEMINI_API_KEY."

(***************************************************************************)
(* handle_call_tool from its entry to the first suspension point or call   *)
(* of the generative model (main.py 13-226).                               *)
(***************************************************************************)
\* for var in arguments.get("variables", [])
Variables(a) == Get(a, "variables", <<>>)

\* one turn of the loop of create_record_producer (79-90)
ProducerLoop(i) ==
    LET vs == Variables(i.args)
        producer_id == Get(i.parent, "sys_id", NoneVal)
    IN IF i.idx < Len(vs)
       THEN Await(i, "create_record",
                  create_record("item_option_new", ProducerVarData(producer_id, vs[i.idx + 1])),
                  "child")
       ELSE IF \E k \in 1..Len(i.created) : i.created[k] = NoneVal
       THEN Raise(i, TypeError("sequence item 0: expected str instance, NoneType found"))
       ELSE ReturnText(i, "Record Producer created: " \o Str(Get(i.parent, "name", NoneVal))
                          \o " (sys_id: " \o Str(producer_id) \o ") with variables: "
                          \o Join(i.created, ", "))

\* one turn of the loop of create_variable_set (100-109)
SetLoop(i) ==
    LET vs == Variables(i.args)
        set_id == Get(i.parent, "sys_id", NoneVal)
    IN IF i.idx < Len(vs)
       THEN Await(i, "create_record",
                  create_record("item_option_new", SetVarData(set_id, vs[i.idx + 1])),
                  "child")
       ELSE ReturnText(i, "Variable Set created: " \o Str(Get(i.parent, "name", NoneVal))
                          \o " (sys_id: " \o Str(set_id) \o ")")

ToolNames ==
    {"create_incident", "create_kb_article", "create_client_script", "create_business_rule",
     "create_sla_definition", "create_record_producer", "create_variable_set",
     "get_incident", "update_incident", "list_incidents", "smart_incident",
     "smart_kb_generator"}

\* the tools whose first statement reads arguments with .get or .items
ReadsArguments(name) == name \in ToolNames \ {"create_incident", "smart_incident", "smart_kb_generator"}

Start(i) ==
    LET a == i.args
    IN IF ReadsArguments(i.name) /\ IsNone(a) THEN Raise(i, AttributeError)
       ELSE CASE i.name = "create_incident" ->
                   Await(i, "create_record", create_record("incident", a), "create")
              [] i.name = "create_kb_article" ->
                   Await(i, "create_record", create_record("kb_knowledge", KbData(a)), "create")
              [] i.name = "create_client_script" ->
                   Await(i, "create_record",
                         create_record("sys_script_client", ClientScriptData(a)), "create")
              [] i.name = "create_business_rule" ->
                   Await(i, "create_record",
                         create_record("sys_script", BusinessRuleData(a)), "create")
              [] i.name = "create_sla_definition" ->
                   Await(i, "create_record", create_record("contract_sla", SlaData(a)), "create")
              [] i.name = "create_record_producer" ->
                   Await(i, "create_record",
                         create_record("sc_cat_item_producer", ProducerData(a)), "parent")
              [] i.name = "create_variable_set" ->
                   Await(i, "create_record",
                         create_record("item_option_new_set", SetData(a)), "parent")
              [] i.name = "get_incident" ->
                   IF Truthy(Get(a, "sys_id", NoneVal))
                   THEN Await(i, "get_record", get_record("incident", a["sys_id"]), "get")
                   ELSE Await(i, "list_records",
                              list_records("incident", NumberParams(a)), "lookup")
              [] i.name = "update_incident" ->
                   Await(i, "list_records", list_records("incident", NumberParams(a)), "lookup")
              [] i.name = "list_incidents" ->
                   Await(i, "list_records", list_records("incident", ListParams(a)), "list")
              [] i.name = "smart_incident" ->
                   IF ~model THEN ReturnText(i, NotConfiguredText)
                   ELSE IF IsNone(a) THEN Raise(i, AttributeError)
                   ELSE Generate(i, IncidentPrompt(a), "gen")
              [] i.name = "smart_kb_generator" ->
                   IF ~model THEN ReturnText(i, NotConfiguredText)
                   ELSE IF IsNone(a) THEN Raise(i, AttributeError)
                   ELSE Generate(i, KbPrompt(a), "gen")
              [] OTHER -> Raise(i, ValueError("Unknown tool: " \o i.name))

(***************************************************************************)
(* handle_call_tool from the return of the generative model to the next    *)
(* call or the return (main.py 185-197, 212-222).                          *)
(***************************************************************************)
\* except Exception as e inside smart_incident (main.py 196-197)
InnerExcept(i, exc) ==
    ReturnText(i, "Failed to parse AI response: " \o exc.msg
                  \o "\nRaw Response: " \o Text(i.raw))

AfterGenerate(i, g) ==
    IF g.kind = "error" THEN Raise(i, GenerativeError)
    ELSE IF g.kind = "blocked" THEN Raise(i, BlockedError)
    ELSE CASE i.name = "smart_incident" ->
                LET j == [i EXCEPT !.raw = g.chunks]
                    text == ExtractJson(g.chunks)
                IN IF ~JsonOk(text) THEN InnerExcept(j, JSONDecodeError)
                   ELSE LET k == [j EXCEPT !.data = JsonLoads(text)]
                        IN IF ~configured
                           THEN InnerExcept(Called(k, "create_record"),
                                            ConfigError("create_record"))
                           ELSE Issue(k, "create_record",
                                      create_record("incident", k.data), "create")
           [] i.name = "smart_kb_generator" /\ i.step = "gen" ->
                LET kb_body == Strip(g.chunks)
                IN Generate([i EXCEPT !.raw = kb_body], TitlePrompt(kb_body), "gen_title")
           [] OTHER ->
                LET data == [short_description |-> Text(RemoveQuotes(Strip(g.chunks))),
                             text |-> Text(i.raw),
                             workflow_state |-> "draft"]
                IN Await([i EXCEPT !.data = data], "create_record",
                         create_record("kb_knowledge", data), "create")

(***************************************************************************)
(* handle_call_tool from the return of an awaited client call to the next  *)
(* suspension point or the return.  ret is what the client call gave:      *)
(* a value, None, or an exception.                                         *)
(***************************************************************************)
\* mutant: a failed child create is skipped and the loop goes on
ChildFailed_Continues(i, exc) ==
    IF i.name = "create_record_producer"
    THEN ProducerLoop([i EXCEPT !.idx = @ + 1])
    ELSE SetLoop([i EXCEPT !.idx = @ + 1])

\* mutant: a failed child create is followed by the removal of the parent
ChildFailed_RollsBack(i, exc) ==
    Issue(i, "delete_record",
          Request("DELETE",
                  (IF i.name = "create_record_producer" THEN "table/sc_cat_item_producer/"
                   ELSE "table/item_option_new_set/") \o Str(Get(i.parent, "sys_id", NoneVal)),
                  NoneDict),
          "rollback")

\* the loops hold no try of their own: an exception raised by the child create,
\* or by reading its result, goes to the top-level boundary (main.py 87-88, 107)
ChildFailed(i, exc) == Raise(i, exc)

\* the success texts of the single-request create tools (main.py 16, 26, 38, 53, 65)
CreatedText(name, result) ==
    LET number == Str(Get(result, "number", NoneVal))
        rname == Str(Get(result, "name", NoneVal))
        tail == " (sys_id: " \o Str(Get(result, "sys_id", NoneVal)) \o ")"
    IN CASE name = "create_incident" -> "Incident created successfully: " \o number \o tail
         [] name = "create_kb_article" -> "KB Article created successfully: " \o number \o tail
         [] name = "create_client_script" -> "Client Script created: " \o rname \o tail
         [] name = "create_business_rule" -> "Business Rule created: " \o rname \o tail
         [] OTHER -> "SLA Definition created: " \o rname \o tail

\* result.get(k, {}).get('display_value', 'Unassigned') if isinstance(..., dict) else 'Unassigned'
Display(result, k) ==
    IF k \in DOMAIN result THEN Get(result[k], "display_value", "Unassigned") ELSE "Unassigned"

\* main.py 128-137
IncidentDetails(result) ==
    Join(<<"Number: " \o Str(Get(result, "number", "N/A")),
           "State: " \o Str(Get(result, "incident_state", Get(result, "state", "N/A"))),
           "Priority: " \o Str(Get(result, "priority", "N/A")),
           "Short Description: " \o Str(Get(result, "short_description", "N/A")),
           "Assignment Group: " \o Display(result, "assignment_group"),
           "Assigned To: " \o Display(result, "assigned_to"),
           "Updated: " \o Str(Get(result, "sys_updated_on", "N/A"))>>, "\n")

\* main.py 166-170
ListText(results) ==
    Join(<<"Found " \o ToString(Len(results)) \o " recent incidents:">>
         \o [k \in 1..Len(results) |->
               "- " \o Str(Get(results[k], "number", NoneVal)) \o ": "
               \o Str(Get(results[k], "short_description", NoneVal)) \o " (State: "
               \o Str(Get(results[k], "state", NoneVal)) \o ", Priority: "
               \o Str(Get(results[k], "priority", NoneVal)) \o ")"], "\n")

NotFoundText(a) == "Incident " \o Str(Get(a, "number", NoneVal)) \o " not found."

\* number or sys_id
NumberOrSysId(a) ==
    IF Truthy(Get(a, "number", NoneVal)) THEN a["number"] ELSE Get(a, "sys_id", NoneVal)

\* mutant: a request that failed is sent once more before the failure is raised
Resume_RetriesOnce(i, ret) ==
    LET n == Len(i.reqs)
    IN IF ret.kind = "raise" /\ ret.exc.type \in {"HTTPStatusError", "ConnectError"}
          /\ (n = 1 \/ i.reqs[n - 1] # i.reqs[n])
       THEN [i EXCEPT !.pc = "await", !.reqs = Append(@, i.reqs[n])]
       ELSE Raise(i, ret.exc)

Resume(i, ret) ==
    LET a == i.args
    IN CASE i.step = "create" /\ i.name = "smart_incident" ->
              IF ret.kind = "raise" THEN InnerExcept(i, ret.exc)
              ELSE IF ret.kind = "none" THEN InnerExcept(i, AttributeError)
              ELSE ReturnText(i, "Smart Incident created: "
                                 \o Str(Get(ret.val, "number", NoneVal))
                                 \o "\nExtracted Data: " \o JsonDumps(i.data))
         [] i.step = "create" /\ i.name = "smart_kb_generator" ->
              IF ret.kind = "raise" THEN Raise(i, ret.exc)
              ELSE IF ret.kind = "none" THEN Raise(i, AttributeError)
              ELSE ReturnText(i, "Smart KB Article created as Draft: "
                                 \o Str(Get(ret.val, "number", NoneVal))
                                 \o "\nTitle: " \o i.data["short_description"])
         [] i.step = "create" /\ i.name \notin {"smart_incident", "smart_kb_generator"} ->
              IF ret.kind = "raise" THEN Raise(i, ret.exc)
              ELSE IF ret.kind = "none" THEN Raise(i, AttributeError)
              ELSE ReturnText(i, CreatedText(i.name, ret.val))
         [] i.step = "parent" ->
              IF ret.kind = "raise" THEN Raise(i, ret.exc)
              ELSE IF ret.kind = "none" THEN Raise(i, AttributeError)
              ELSE LET j == [i EXCEPT !.parent = ret.val, !.idx = 0, !.created = <<>>]
                   IN IF i.name = "create_record_producer" THEN ProducerLoop(j) ELSE SetLoop(j)
         [] i.step = "child" /\ i.name = "create_record_producer" ->
              IF ret.kind = "raise" THEN ChildFailed(i, ret.exc)
              ELSE IF ret.kind = "none" THEN ChildFailed(i, AttributeError)
              ELSE ProducerLoop([i EXCEPT !.idx = @ + 1,
                                          !.created = Append(@, Get(ret.val, "name", NoneVal))])
         [] i.step = "child" /\ i.name # "create_record_producer" ->
              IF ret.kind = "raise" THEN ChildFailed(i, ret.exc)
              ELSE SetLoop([i EXCEPT !.idx = @ + 1])
         [] i.step = "lookup" ->
              IF ret.kind = "raise" THEN Raise(i, ret.exc)
              ELSE IF ret.kind = "none" \/ Len(ret.val) = 0 THEN ReturnText(i, NotFoundText(a))
              ELSE IF i.name = "get_incident" THEN ReturnText(i, IncidentDetails(ret.val[1]))
              ELSE Await(i, "update_record",
                         update_record("incident", Get(ret.val[1], "sys_id", NoneVal),
                                       UpdateData(a)), "patch")
         [] i.step = "get" ->
              IF ret.kind = "raise" THEN Raise(i, ret.exc)
              ELSE IF ret.kind = "none"
              THEN ReturnText(i, "Error: Unexpected response format from ServiceNow for incident "
                                 \o Str(NumberOrSysId(a)) \o ". Got: None")
              ELSE ReturnText(i, IncidentDetails(ret.val))
         [] i.step = "patch" ->
              IF ret.kind = "raise" THEN Raise(i, ret.exc)
              ELSE ReturnText(i, "Incident " \o Str(Get(a, "number", NoneVal))
                                 \o " updated successfully.")
         [] OTHER ->
              IF ret.kind = "raise" THEN Raise(i, ret.exc)
              ELSE IF ret.kind = "none"
              THEN Raise(i, TypeError("object of type 'NoneType' has no len()"))
              ELSE ReturnText(i, ListText(ret.val))

(***************************************************************************)
(* The remote platform.  It answers a request with a 2xx status and a      *)
(* JSON envelope (ok, empty), a non-2xx status (status), a 2xx status with *)
(* a body that is not JSON (badjson), or a 2xx status with an envelope     *)
(* whose result is null (null), or the request gets no response at all     *)
(* (transport).  A POST answered 2xx has created a record with a fresh     *)
(* sys_id.                                                                 *)
(***************************************************************************)
IsList(req) == req.method = "GET" /\ ~IsNone(req.params)

Outcomes(req) ==
    {"ok", "status", "transport", "badjson", "null"} \cup (IF IsList(req) THEN {"empty"} ELSE {})

Creates(req, outcome) == req.method = "POST" /\ outcome \in {"ok", "badjson", "null"}

NewId(r) == "id" \o ToString(Len(r) + 1)

\* the record a POST creates: the fields sent, a sys_id and a number
CreatedRecord(req, r) ==
    LET sent == IF IsNone(req.json) THEN {} ELSE DOMAIN req.json
    IN [k \in sent \cup {"sys_id", "number"} |->
          IF k = "sys_id" THEN NewId(r)
          ELSE IF k = "number" THEN "NUM" \o ToString(Len(r) + 1)
          ELSE req.json[k]]

\* the incident a GET or PATCH of the incident table answers with
StoredIncident ==
    [sys_id |-> "abc123", number |-> "INC7", state |-> "2", priority |-> "1",
     short_description |-> "vpn down", sys_updated_on |-> "2024-01-01",
     assignment_group |-> [display_value |-> "Network"]]

\* the collections of the platform the adapter addresses
Collections ==
    {"incident", "kb_knowledge", "sys_script_client", "sys_script", "contract_sla",
     "sc_cat_item_producer", "item_option_new_set", "item_option_new"}

\* the platform removes a record only when a DELETE on its path is accepted
Removes(req, outcome, x) ==
    /\ req.method = "DELETE"
    /\ outcome \in {"ok", "badjson", "null"}
    /\ req.path \in {"table/" \o c \o "/" \o x : c \in Collections}

RemoteAfter(r, req, outcome) ==
    IF Creates(req, outcome) THEN Append(r, NewId(r))
    ELSE SelectSeq(r, LAMBDA x : ~Removes(req, outcome, x))

\* what the request left in the invocation's log
Receipt(r, req, outcome) ==
    [outcome |-> outcome, sys_id |-> IF Creates(req, outcome) THEN NewId(r) ELSE NoneVal]

\* what the client call returns to the handler: server.py 102-103, 127-128
ClientReturn(req, outcome, r) ==
    IF outcome = "status" THEN [kind |-> "raise", val |-> <<>>, exc |-> HTTPStatusError]
    ELSE IF outcome = "transport" THEN [kind |-> "raise", val |-> <<>>, exc |-> TransportError]
    ELSE IF outcome = "badjson" THEN [kind |-> "raise", val |-> <<>>, exc |-> JSONDecodeError]
    ELSE IF outcome = "null" THEN [kind |-> "none", val |-> <<>>, exc |-> AttributeError]
    ELSE IF outcome = "empty" THEN [kind |-> "value", val |-> <<>>, exc |-> AttributeError]
    ELSE [kind |-> "value",
          val |-> IF req.method = "POST" THEN CreatedRecord(req, r)
                  ELSE IF IsList(req) THEN <<StoredIncident>>
                  ELSE StoredIncident,
          exc |-> AttributeError]

(***************************************************************************)
(* The generative API: it answers with a text, fails, or answers with a    *)
(* response whose text accessor raises.                                    *)
(***************************************************************************)
Prose == "Here is the incident:"

IncidentResponses ==
    {<<ObjA>>,
     <<Ws, ObjA, Ws>>,
     <<FenceJson, Ws, ObjA, Ws, Fence>>,
     <<Prose, Ws, FenceJson, Ws, ObjA, Ws, Fence, Ws, Prose>>,
     <<ObjB, Ws, FenceJson, ObjA, Fence, ObjB>>,
     <<Fence, Ws, ObjB, Ws, Fence>>,
     <<FenceJson, ObjA>>,
     <<Prose>>,
     <<Prose, Ws, ObjA>>,
     <<FenceJson, Prose, Fence>>,
     <<>>}

KbResponses == {<<"<h1>Reset</h1>">>, <<Ws, "<h1>Reset</h1>", Ws>>}

TitleResponses == {<<"Reset guide">>, <<Quote, "Reset guide", Quote, Ws>>}

GenOutcomes(i) ==
    {[kind |-> "error", chunks |-> <<>>], [kind |-> "blocked", chunks |-> <<>>]}
    \cup {[kind |-> "text", chunks |-> c] :
            c \in IF i.name = "smart_incident" THEN IncidentResponses
                  ELSE IF i.step = "gen" THEN KbResponses
                  ELSE TitleResponses}

(***************************************************************************)
(* The external host: the invocations it issues.                           *)
(***************************************************************************)
UnknownTool == "delete_incident"

VarKinds ==
    {[name |-> "v_str", label |-> "S", type |-> "string"],
     [name |-> "v_cho", label |-> "C", type |-> "choice", mandatory |-> TRUE],
     [name |-> "v_int", label |-> "I", type |-> "integer"]}

VarLists == UNION {[1..n -> VarKinds] : n \in 1..MaxVars}

WithVariables(a) == {a} \cup {[k \in DOMAIN a \cup {"variables"} |->
                                 IF k = "variables" THEN vs ELSE a[k]] : vs \in VarLists}

ArgsFor(name) ==
    {NoneDict} \cup
    CASE name = "create_incident" ->
           {[short_description |-> "vpn down"],
            [short_description |-> "vpn down", urgency |-> "1"]}
      [] name = "create_kb_article" ->
           {[short_description |-> "reset", article_body |-> "<p>steps</p>"],
            [short_description |-> "reset", article_body |-> "<p>steps</p>",
             workflow_state |-> "published", kb_knowledge_base |-> "kb1"]}
      [] name = "create_client_script" ->
           {[name |-> "cs", table |-> "incident", script |-> "js", script_type |-> "onLoad"],
            [name |-> "cs", table |-> "incident", script |-> "js", script_type |-> "onChange",
             field_name |-> "state", active |-> FALSE]}
      [] name = "create_business_rule" ->
           {[name |-> "br", table |-> "incident", script |-> "js", when |-> "before"],
            [name |-> "br", table |-> "incident", script |-> "js", when |-> "after",
             action_update |-> TRUE, active |-> FALSE]}
      [] name = "create_sla_definition" ->
           {[name |-> "sla", table |-> "incident", duration_seconds |-> 60,
             start_condition |-> "active=true", stop_condition |-> "state=6"],
            [name |-> "sla", table |-> "incident", duration_seconds |-> 3600,
             start_condition |-> "active=true", stop_condition |-> "state=6",
             pause_condition |-> "state=3"]}
      [] name = "create_record_producer" ->
           WithVariables([name |-> "rp", table_name |-> "incident"])
      [] name = "create_variable_set" ->
           WithVariables([name |-> "vs"])
      [] name = "get_incident" ->
           {EmptyDict, [number |-> "INC7"], [sys_id |-> "abc123"],
            [number |-> "INC7", sys_id |-> ""], [number |-> "INC7", sys_id |-> "abc123"]}
      [] name = "update_incident" ->
           {[number |-> "INC7"], [number |-> "INC7", state |-> "2"],
            [number |-> "INC7", state |-> "2", comments |-> "working on it"],
            [state |-> "2"]}
      [] name = "list_incidents" ->
           {[k \in ks |-> IF k = "priority" THEN pr ELSE IF k = "state" THEN st ELSE 5] :
              ks \in SUBSET {"priority", "state", "limit"}, pr \in {"", "1"}, st \in {"", "2"}}
      [] name = "smart_incident" ->
           {[unstructured_text |-> "vpn is down"]}
      [] name = "smart_kb_generator" ->
           {[source_content |-> "notes"],
            [source_content |-> "notes", target_audience |-> "IT Staff"]}
      [] OTHER -> {[x |-> "y"]}

(***************************************************************************)
(* Actions.                                                                *)
(***************************************************************************)
\* the host calls a tool: handle_call_tool runs to its first suspension point
Call(p) ==
    /\ blocked = 0
    /\ started < MaxInvocations
    /\ inv[p].pc = "idle"
    /\ \A q \in Procs : q < p => inv[q].pc # "idle"
    /\ Cardinality({q \in Procs : inv[q].pc # "idle"}) < host.slots
    /\ \E name \in host.tools : \E a \in ArgsFor(name) :
         LET j == Start(Fresh(name, a))
         IN /\ inv' = [inv EXCEPT ![p] = j]
            /\ blocked' = IF j.pc = "generate" THEN p ELSE 0
    /\ started' = started + 1
    /\ UNCHANGED <<env, host, remote>>

\* the remote platform answers the request in flight: the coroutine resumes
Respond(p) ==
    /\ blocked = 0
    /\ inv[p].pc = "await"
    /\ \E outcome \in Outcomes(inv[p].reqs[Len(inv[p].reqs)]) :
         LET req == inv[p].reqs[Len(inv[p].reqs)]
             i == [inv[p] EXCEPT !.got = Append(@, Receipt(remote, req, outcome))]
         IN /\ inv' = [inv EXCEPT ![p] = Resume(i, ClientReturn(req, outcome, remote))]
            /\ remote' = RemoteAfter(remote, req, outcome)
    /\ UNCHANGED <<env, host, started, blocked>>

\* model.generate_content returns or raises; the thread was held meanwhile
Generated(p) ==
    /\ blocked = p
    /\ inv[p].pc = "generate"
    /\ \E g \in GenOutcomes(inv[p]) :
         LET j == AfterGenerate(inv[p], g)
         IN /\ inv' = [inv EXCEPT ![p] = j]
            /\ blocked' = IF j.pc = "generate" THEN p ELSE 0
    /\ UNCHANGED <<env, host, remote, started>>

\* the host takes the result
Return(p) ==
    /\ blocked = 0
    /\ inv[p].pc = "done"
    /\ inv' = [inv EXCEPT ![p] = Idle]
    /\ UNCHANGED <<env, host, remote, started, blocked>>

Next == \E p \in Procs : Call(p) \/ Respond(p) \/ Generated(p) \/ Return(p)

InitCommon ==
    /\ env \in SUBSET EnvVars
    /\ inv = [p \in Procs |-> Idle]
    /\ remote = <<>>
    /\ started = 0
    /\ blocked = 0

\* a host that calls every tool, one invocation at a time
Init == InitCommon /\ host = [tools |-> ToolNames \cup {UnknownTool}, slots |-> 1]

Spec == Init /\ [][Next]_vars

\* a host that keeps two invocations in flight
ConcurrentTools == {"create_incident", "get_incident", "smart_incident"}

InitConcurrent == InitCommon /\ host = [tools |-> ConcurrentTools, slots |-> Cardinality(Procs)]

SpecConcurrent == InitConcurrent /\ [][Next]_vars

(***************************************************************************)
(* Properties.                                                             *)
(***************************************************************************)
Range(s) == {s[k] : k \in 1..Len(s)}

LastOutcome(i) == i.got[Len(i.got)].outcome

\* the lookup by number that get_incident and update_incident send
LookupRequest(number) ==
    [method |-> "GET", path |-> "table/incident", json |-> NoneDict,
     params |-> [sysparm_query |-> "number=" \o number, sysparm_limit |-> 1]]

\* C1: whatever the tool name, the arguments and the failures of the
\* collaborators, an invocation that has ended has returned a text result:
\* no exception leaves handle_call_tool.  Until it ends, the invocation is
\* waiting on a collaborator that will answer or fail, never stuck inside
\* the handler.
C1_AlwaysReturnsText ==
    \A p \in Procs :
        /\ inv[p].pc \in {"idle", "await", "generate", "done"}
        /\ inv[p].pc = "done" => inv[p].result.kind = "text"
        /\ inv[p].pc = "await" => Len(inv[p].reqs) = Len(inv[p].got) + 1
        /\ inv[p].pc = "generate" => blocked = p /\ Len(inv[p].prompts) > 0

C1_Witness ==
    \E p \in Procs :
        /\ inv[p].pc = "done"
        /\ Len(inv[p].got) > 0
        /\ LastOutcome(inv[p]) = "badjson"
        /\ inv[p].result = [kind |-> "text", text |-> "Error: " \o JSONDecodeError.msg]

\* C2: get_incident with a number and no sys_id makes one list call, a GET
\* of the incident table with query number=<number> and limit 1, and no
\* other call; on an empty result it returns "Incident <number> not found.".
C2_GetIncidentByNumber ==
    \A p \in Procs :
        LET i == inv[p]
        IN (/\ i.name = "get_incident"
            /\ ~IsNone(i.args)
            /\ "number" \in DOMAIN i.args
            /\ Get(i.args, "sys_id", "") = "")
           => /\ i.calls = <<"list_records">>
              /\ i.prompts = <<>>
              /\ i.reqs = IF configured THEN <<LookupRequest(i.args["number"])>> ELSE <<>>
              /\ (i.pc = "done" /\ Len(i.got) = 1 /\ i.got[1].outcome = "empty")
                 => i.result = [kind |-> "text",
                                text |-> "Incident " \o i.args["number"] \o " not found."]

C2_Witness ==
    \E p \in Procs :
        /\ inv[p].name = "get_incident"
        /\ inv[p].args = [number |-> "INC7"]
        /\ inv[p].pc = "done"
        /\ Len(inv[p].reqs) = 1
        /\ inv[p].got[1].outcome = "empty"
        /\ inv[p].result.text = "Incident INC7 not found."

\* C3: update_incident first looks the number up with one list call of
\* limit 1.  When the lookup returns a record it then sends one PATCH to
\* that record's sys_id, whose payload is the arguments without the number
\* key and with every other key unchanged, and nothing else; when the
\* lookup returns no record it sends no PATCH and returns a not-found text.
C3_UpdateIncident ==
    \A p \in Procs :
        LET i == inv[p]
            found == Len(i.got) >= 1 /\ i.got[1].outcome = "ok"
        IN (i.name = "update_incident" /\ ~IsNone(i.args) /\ "number" \in DOMAIN i.args
            /\ configured)
           => /\ Len(i.reqs) \in {1, 2}
              /\ i.reqs[1] = LookupRequest(i.args["number"])
              /\ Len(i.reqs) = 2 <=> found
              /\ Len(i.reqs) = 2 =>
                   /\ i.reqs[2].method = "PATCH"
                   /\ i.reqs[2].path = "table/incident/" \o StoredIncident.sys_id
                   /\ DOMAIN i.reqs[2].json = DOMAIN i.args \ {"number"}
                   /\ \A k \in DOMAIN i.reqs[2].json : i.reqs[2].json[k] = i.args[k]
                   /\ IsNone(i.reqs[2].params)
              /\ (i.pc = "done" /\ Len(i.got) = 1 /\ i.got[1].outcome \in {"empty", "null"})
                 => i.result = [kind |-> "text",
                                text |-> "Incident " \o i.args["number"] \o " not found."]

C3_Witness ==
    \E p \in Procs :
        /\ inv[p].name = "update_incident"
        /\ inv[p].args = [number |-> "INC7", state |-> "2", comments |-> "working on it"]
        /\ inv[p].pc = "done"
        /\ Len(inv[p].reqs) = 2
        /\ inv[p].reqs[2].json = [state |-> "2", comments |-> "working on it"]
        /\ inv[p].result.text = "Incident INC7 updated successfully."

\* C4: list_incidents sends as sysparm_query the non-empty priority and
\* state clauses joined by ^, priority first; with neither filter the query
\* is ORDERBYDESCsys_created_on; the limit is the caller's, or 10.
C4_ListIncidentsQuery ==
    \A p \in Procs :
        LET i == inv[p]
            a == i.args
            hasPriority == "priority" \in DOMAIN a /\ a["priority"] # ""
            hasState == "state" \in DOMAIN a /\ a["state"] # ""
            query == IF hasPriority /\ hasState
                     THEN "priority=" \o a["priority"] \o "^state=" \o a["state"]
                     ELSE IF hasPriority THEN "priority=" \o a["priority"]
                     ELSE IF hasState THEN "state=" \o a["state"]
                     ELSE "ORDERBYDESCsys_created_on"
            limit == IF "limit" \in DOMAIN a THEN a["limit"] ELSE 10
        IN (i.name = "list_incidents" /\ ~IsNone(a) /\ configured)
           => /\ i.calls = <<"list_records">>
              /\ i.reqs = <<[method |-> "GET", path |-> "table/incident", json |-> NoneDict,
                             params |-> [sysparm_query |-> query, sysparm_limit |-> limit]]>>
              /\ (a = [priority |-> "1", state |-> "2"])
                 => i.reqs[1].params =
                        [sysparm_query |-> "priority=1^state=2", sysparm_limit |-> 10]

C4_Witness ==
    \E p \in Procs :
        /\ inv[p].name = "list_incidents"
        /\ inv[p].args = [priority |-> "1", state |-> "2"]
        /\ inv[p].pc = "done"
        /\ Len(inv[p].reqs) = 1
        /\ inv[p].reqs[1].params.sysparm_query = "priority=1^state=2"
        /\ inv[p].reqs[1].params.sysparm_limit = 10

\* C5: create_record_producer sends the parent POST to sc_cat_item_producer
\* first and then one POST to item_option_new per variable, in input order,
\* each with cat_item equal to the sys_id the parent POST returned and with
\* type 6 for string, 1 for choice and 2 for any other type.  A child is
\* sent only after every request before it succeeded, and an invocation
\* none of whose requests failed has sent all N of them.
C5_ProducerRequests ==
    \A p \in Procs :
        LET i == inv[p]
            vs == IF "variables" \in DOMAIN i.args THEN i.args["variables"] ELSE <<>>
            code(t) == CASE t = "string" -> 6 [] t = "choice" -> 1 [] OTHER -> 2
        IN (i.name = "create_record_producer" /\ ~IsNone(i.args) /\ configured)
           => /\ Len(i.reqs) \in 1..(Len(vs) + 1)
              /\ i.reqs[1].method = "POST"
              /\ i.reqs[1].path = "table/sc_cat_item_producer"
              /\ \A k \in 2..Len(i.reqs) :
                   /\ i.reqs[k].method = "POST"
                   /\ i.reqs[k].path = "table/item_option_new"
                   /\ i.got[k - 1].outcome = "ok"
                   /\ i.reqs[k].json["cat_item"] = i.got[1].sys_id
                   /\ i.reqs[k].json["name"] = vs[k - 1]["name"]
                   /\ i.reqs[k].json["type"] = code(vs[k - 1]["type"])
              /\ (i.pc = "done" /\ \A k \in 1..Len(i.got) : i.got[k].outcome = "ok")
                 => Len(i.reqs) = Len(vs) + 1

C5_Witness ==
    \E p \in Procs :
        /\ inv[p].name = "create_record_producer"
        /\ inv[p].pc = "done"
        /\ Len(inv[p].reqs) = 4
        /\ "variables" \in DOMAIN inv[p].args
        /\ [k \in 1..3 |-> inv[p].args["variables"][k]["type"]] = <<"choice", "integer", "string">>
        /\ [k \in 1..3 |-> inv[p].reqs[k + 1].json["type"]] = <<1, 2, 6>>
        /\ inv[p].reqs[4].json["cat_item"] = inv[p].got[1].sys_id
        /\ inv[p].got[4].outcome = "ok"

\* the response text between the opening fence marker and the next marker
\* (all of it when there is no fence), by position
NonWs(t) == SelectSeq(t, LAMBDA c : c # Ws)

Opening(raw) ==
    LET m == IF FenceJson \in Range(raw) THEN {FenceJson} ELSE {Fence}
    IN IF \E k \in 1..Len(raw) : raw[k] \in m
       THEN CHOOSE k \in 1..Len(raw) : raw[k] \in m /\ \A j \in 1..(k - 1) : raw[j] \notin m
       ELSE 0

Closing(raw) ==
    LET after == {k \in (Opening(raw) + 1)..Len(raw) : raw[k] \in {Fence, FenceJson}}
    IN IF after = {} THEN Len(raw) + 1 ELSE CHOOSE k \in after : \A j \in after : k <= j

Fenced(raw) ==
    IF Opening(raw) = 0 THEN raw ELSE SubSeq(raw, Opening(raw) + 1, Closing(raw) - 1)

IsOneJsonValue(t) == Len(NonWs(t)) = 1 /\ NonWs(t)[1] \in JsonChunks

\* C6: when the content between the fence markers of the model response is
\* a JSON value, smart_incident parses that content and nothing outside the
\* fence and creates the incident from it; when the response cannot be
\* parsed it returns an error text that ends with the raw response and
\* makes no create call.
C6_SmartIncidentParsing ==
    \A p \in Procs :
        LET i == inv[p]
        IN (i.name = "smart_incident" /\ Len(i.raw) > 0)
           => IF IsOneJsonValue(Fenced(i.raw))
              THEN /\ i.data = JsonValue(NonWs(Fenced(i.raw))[1])
                   /\ i.calls = <<"create_record">>
                   /\ i.reqs = IF configured
                               THEN <<[method |-> "POST", path |-> "table/incident",
                                       json |-> JsonValue(NonWs(Fenced(i.raw))[1]),
                                       params |-> NoneDict]>>
                               ELSE <<>>
              ELSE /\ i.pc = "done"
                   /\ i.calls = <<>>
                   /\ i.reqs = <<>>
                   /\ i.result = [kind |-> "text",
                                  text |-> "Failed to parse AI response: "
                                           \o JSONDecodeError.msg
                                           \o "\nRaw Response: " \o Text(i.raw)]

C6_Witness ==
    \E p \in Procs :
        /\ inv[p].name = "smart_incident"
        /\ inv[p].raw = <<ObjB, Ws, FenceJson, ObjA, Fence, ObjB>>
        /\ inv[p].pc = "done"
        /\ Len(inv[p].reqs) = 1
        /\ inv[p].reqs[1].json = [short_description |-> "vpn down", urgency |-> 2]
        /\ inv[p].got[1].outcome = "ok"

\* C7: the fields a create_* tool sends are the documented translation of
\* its arguments: create_incident sends the arguments unchanged,
\* create_kb_article sends article_body as text, create_business_rule sends
\* table as collection and when as when_toggle, create_sla_definition sends
\* table as collection and duration_seconds n as duration PT<n>S; no
\* translated argument name is a key of the payload.
C7_CreateFieldTranslation ==
    \A p \in Procs :
        LET i == inv[p]
            a == i.args
            sent == i.reqs[1].json
        IN (i.name \in {"create_incident", "create_kb_article", "create_business_rule",
                        "create_sla_definition"} /\ ~IsNone(a) /\ configured)
           => /\ Len(i.reqs) = 1
              /\ i.reqs[1].method = "POST"
              /\ i.name = "create_incident" =>
                   i.reqs[1].path = "table/incident" /\ sent = a
              /\ i.name = "create_kb_article" =>
                   /\ i.reqs[1].path = "table/kb_knowledge"
                   /\ DOMAIN sent = {"short_description", "text", "workflow_state",
                                     "kb_knowledge_base"}
                   /\ sent["text"] = a["article_body"]
                   /\ sent["short_description"] = a["short_description"]
              /\ i.name = "create_business_rule" =>
                   /\ i.reqs[1].path = "table/sys_script"
                   /\ DOMAIN sent = {"name", "collection", "script", "when_toggle",
                                     "action_insert", "action_update", "action_delete",
                                     "action_query", "active"}
                   /\ sent["collection"] = a["table"]
                   /\ sent["when_toggle"] = a["when"]
                   /\ sent["name"] = a["name"] /\ sent["script"] = a["script"]
              /\ i.name = "create_sla_definition" =>
                   /\ i.reqs[1].path = "table/contract_sla"
                   /\ DOMAIN sent = {"name", "collection", "duration", "start_condition",
                                     "stop_condition", "pause_condition"}
                   /\ sent["collection"] = a["table"]
                   /\ sent["duration"] = (IF a["duration_seconds"] = 60 THEN "PT60S"
                                          ELSE "PT3600S")
                   /\ sent["start_condition"] = a["start_condition"]
                   /\ sent["stop_condition"] = a["stop_condition"]

C7_Witness ==
    \E p \in Procs :
        /\ inv[p].name = "create_business_rule"
        /\ inv[p].pc = "done"
        /\ Len(inv[p].reqs) = 1
        /\ inv[p].args["when"] = "after"
        /\ inv[p].reqs[1].json["when_toggle"] = "after"
        /\ inv[p].reqs[1].json["collection"] = "incident"
        /\ inv[p].got[1].outcome = "ok"

\* the child create of an invocation failed: the request was refused or its
\* answer could not be read
LastChildFailed(i) ==
    /\ i.name \in {"create_record_producer", "create_variable_set"}
    /\ Len(i.got) >= 2
    /\ \/ LastOutcome(i) \in {"status", "transport", "badjson"}
       \/ LastOutcome(i) = "null" /\ i.name = "create_record_producer"

\* C8: when the creation of child k fails after the parent was created, the
\* parent and the children before k remain on the platform, every request
\* the invocation sent is a POST (none deletes or updates), no child after
\* k is attempted, and the invocation returns an error text.
C8_NoRollback ==
    \A p \in Procs :
        LET i == inv[p]
        IN LastChildFailed(i)
           => /\ i.pc = "done"
              /\ Len(i.reqs) = Len(i.got)
              /\ \A k \in 1..Len(i.reqs) : i.reqs[k].method = "POST"
              /\ \A k \in 1..(Len(i.got) - 1) :
                   i.got[k].outcome \in {"ok", "null"} /\ i.got[k].sys_id \in Range(remote)
              /\ i.result.kind = "text"
              /\ i.result.text \in {"Error: " \o HTTPStatusError.msg,
                                    "Error: " \o TransportError.msg,
                                    "Error: " \o JSONDecodeError.msg,
                                    "Error: " \o AttributeError.msg}

C8_Witness ==
    \E p \in Procs :
        /\ inv[p].name = "create_variable_set"
        /\ inv[p].pc = "done"
        /\ "variables" \in DOMAIN inv[p].args
        /\ Len(inv[p].args["variables"]) = 3
        /\ Len(inv[p].got) = 3
        /\ inv[p].got[3].outcome = "status"
        /\ {inv[p].got[1].sys_id, inv[p].got[2].sys_id} \subseteq Range(remote)
        /\ inv[p].result.text = "Error: " \o HTTPStatusError.msg

\* C9: two invocations of create_incident with the same arguments each send
\* their own POST to the incident table, whatever the other has done, and
\* when both succeed the platform holds two records with distinct sys_ids:
\* the second invocation is neither suppressed nor merged with the first.
C9_RepeatedCreateIsNotDeduplicated ==
    \A p, q \in Procs :
        LET i == inv[p]
            j == inv[q]
            post == [method |-> "POST", path |-> "table/incident", json |-> i.args,
                     params |-> NoneDict]
            created(x) == Len(x.got) = 1 /\ x.got[1].outcome = "ok"
        IN (p # q /\ i.name = "create_incident" /\ j.name = "create_incident"
            /\ i.args = j.args /\ configured)
           => /\ i.reqs = <<post>>
              /\ j.reqs = <<post>>
              /\ (created(i) /\ created(j))
                 => /\ i.got[1].sys_id # j.got[1].sys_id
                    /\ {i.got[1].sys_id, j.got[1].sys_id} \subseteq Range(remote)
                    /\ i.result.kind = "text" /\ j.result.kind = "text"

C9_Witness ==
    /\ inv[1].name = "create_incident" /\ inv[2].name = "create_incident"
    /\ inv[1].args = [short_description |-> "vpn down"]
    /\ inv[2].args = [short_description |-> "vpn down"]
    /\ inv[1].pc = "done" /\ inv[2].pc = "done"
    /\ Len(inv[1].reqs) = 1 /\ Len(inv[2].reqs) = 1
    /\ inv[1].reqs[1] = inv[2].reqs[1]
    /\ inv[1].got[1].outcome = "ok" /\ inv[2].got[1].outcome = "ok"
    /\ Len(remote) = 2
    /\ inv[1].got[1].sys_id # inv[2].got[1].sys_id

ServiceNowVars == {"SERVICENOW_INSTANCE", "SERVICENOW_USERNAME", "SERVICENOW_PASSWORD"}

SmartTools == {"smart_incident", "smart_kb_generator"}

\* C10: no request goes to a collaborator whose configuration is absent.
\* With the instance URL, the username or the password missing, every call
\* of the record client ends the invocation with a configuration error and
\* no HTTP request is sent.  With the generative-API key missing, the two
\* smart tools return the not-configured text without a call of the
\* generative API or of the record client, and the other tools neither call
\* the generative API nor return that text: they send their requests as
\* they do with the key set.
C10_AbsentConfiguration ==
    \A p \in Procs :
        LET i == inv[p]
            notConfigured == "Gemini AI is not configured. Please set GEMINI_API_KEY."
            short == "ServiceNow client not configured."
            long == "ServiceNow client not configured. Check environment variables."
        IN /\ (\E v \in ServiceNowVars : v \notin env)
              => /\ i.reqs = <<>>
                 /\ remote = <<>>
                 /\ Len(i.calls) > 0
                    => /\ i.pc = "done"
                       /\ Len(i.calls) = 1
                       /\ i.result.kind = "text"
                       /\ i.result.text \in
                            {"Error: " \o short, "Error: " \o long,
                             "Failed to parse AI response: " \o long
                             \o "\nRaw Response: " \o Text(i.raw)}
           /\ "GEMINI_API_KEY" \notin env
              => /\ i.prompts = <<>>
                 /\ i.name \in SmartTools
                    => /\ i.pc = "done"
                       /\ i.result = [kind |-> "text", text |-> notConfigured]
                       /\ i.calls = <<>>
                       /\ i.reqs = <<>>
           /\ (i.name \notin SmartTools /\ i.pc # "idle")
              => /\ i.prompts = <<>>
                 /\ i.result.text # notConfigured
                 /\ (i.name \in ToolNames /\ ~IsNone(i.args) /\ ServiceNowVars \subseteq env)
                    => Len(i.reqs) >= 1

C10_Witness ==
    \E p \in Procs :
        /\ env = EnvVars \ {"SERVICENOW_PASSWORD"}
        /\ inv[p].name = "create_kb_article"
        /\ inv[p].pc = "done"
        /\ inv[p].calls = <<"create_record">>
        /\ inv[p].reqs = <<>>
        /\ inv[p].result.text
             = "Error: ServiceNow client not configured. Check environment variables."

\* the method and the shape of the request each primitive of the client sends
RequestOf(op, req) ==
    CASE op = "create_record" -> req.method = "POST" /\ IsNone(req.params)
      [] op = "get_record" -> req.method = "GET" /\ IsNone(req.params) /\ IsNone(req.json)
      [] op = "update_record" -> req.method = "PATCH" /\ IsNone(req.params)
      [] OTHER -> req.method = "GET" /\ ~IsNone(req.params) /\ IsNone(req.json)

\* C11: every call of a primitive of the record client (create, get,
\* update, list) sends exactly one HTTP request: the k-th request of an
\* invocation is the request of its k-th client call, and only the last one
\* can be unanswered.  When a request fails with a non-2xx status or gets no
\* response, the failure is raised to the handler: the invocation has ended
\* with the text of that failure and the failed request is the last request
\* it sent; nothing is sent again.
C11_OneRequestPerCall ==
    \A p \in Procs :
        LET i == inv[p]
            failure(o) == IF o = "status" THEN HTTPStatusError ELSE TransportError
        IN /\ Len(i.reqs) = IF configured THEN Len(i.calls) ELSE 0
           /\ \A k \in 1..Len(i.reqs) : RequestOf(i.calls[k], i.reqs[k])
           /\ Len(i.got) = IF i.pc = "await" THEN Len(i.reqs) - 1 ELSE Len(i.reqs)
           /\ \A k \in 1..Len(i.got) :
                i.got[k].outcome \in {"status", "transport"}
                => /\ k = Len(i.reqs)
                   /\ i.pc = "done"
                   /\ i.result.kind = "text"
                   /\ i.result.text \in
                        {"Error: " \o failure(i.got[k].outcome).msg,
                         "Failed to parse AI response: " \o failure(i.got[k].outcome).msg
                         \o "\nRaw Response: " \o Text(i.raw)}

C11_Witness ==
    \E p \in Procs :
        /\ inv[p].name = "update_incident"
        /\ inv[p].pc = "done"
        /\ inv[p].calls = <<"list_records", "update_record">>
        /\ Len(inv[p].reqs) = 2
        /\ inv[p].got[1].outcome = "ok"
        /\ inv[p].got[2].outcome = "transport"
        /\ inv[p].result.text = "Error: " \o TransportError.msg

\* the identifiers a path can end with: those of the records created so far
\* and that of the stored incident
KnownIds == Range(remote) \cup {StoredIncident.sys_id}

\* a request of the record lifecycle: POST or GET by filter on
\* table/<collection>, GET by identifier or PATCH on table/<collection>/<id>
LifecycleRequest(req) ==
    \/ /\ req.method = "POST"
       /\ req.path \in {"table/" \o c : c \in Collections}
    \/ /\ req.method = "GET" /\ ~IsNone(req.params)
       /\ req.path \in {"table/" \o c : c \in Collections}
    \/ /\ req.method \in {"GET", "PATCH"} /\ IsNone(req.params)
       /\ req.path \in {"table/" \o c \o "/" \o x : c \in Collections, x \in KnownIds}

\* the records held before the step are still held after it, in the same order
RecordsKept ==
    /\ Len(remote') >= Len(remote)
    /\ \A k \in 1..Len(remote) : remote'[k] = remote[k]

\* C12: after any sequence of invocations, every request sent to the remote
\* platform is a GET, a POST or a PATCH on a path table/<collection> or
\* table/<collection>/<id>; none is a DELETE, and no step removes a record
\* the platform holds.
C12_NoDelete ==
    /\ [](\A p \in Procs : \A k \in 1..Len(inv[p].reqs) : LifecycleRequest(inv[p].reqs[k]))
    /\ [][RecordsKept]_vars

C12_Witness ==
    \E p \in Procs :
        /\ inv[p].name = "update_incident"
        /\ inv[p].pc = "done"
        /\ Len(inv[p].reqs) = 2
        /\ inv[p].reqs[1].method = "GET"
        /\ inv[p].reqs[2].method = "PATCH"
        /\ inv[p].reqs[2].path = "table/incident/abc123"
        /\ inv[p].got[2].outcome = "ok"
        /\ remote = <<"id1">>

\* C13: create_variable_set, like create_record_producer, creates the parent
\* and then one child per variable that references the parent's sys_id,
\* sends for each child the numeric type code of its type string (string 6,
\* choice 1, otherwise 2), and lists the child names in the final success
\* message.
C13_VariableSetLikeProducer ==
    \A p \in Procs :
        LET i == inv[p]
            vs == Variables(i.args)
            set_id == Get(i.parent, "sys_id", NoneVal)
        IN (i.name = "create_variable_set" /\ ~IsNone(i.args))
           => /\ \A k \in 2..Len(i.reqs) :
                   /\ i.reqs[k].method = "POST"
                   /\ i.reqs[k].path = "table/item_option_new"
                   /\ i.reqs[k].json["variable_set"] = set_id
                   /\ "type" \in DOMAIN i.reqs[k].json
                   /\ i.reqs[k].json["type"] = TypeCode(Get(vs[k - 1], "type", NoneVal))
              /\ (i.pc = "done" /\ Len(vs) >= 1 /\ Len(i.got) = Len(vs) + 1
                  /\ \A k \in 1..Len(i.got) : i.got[k].outcome = "ok")
                 => i.result.text
                      = "Variable Set created: " \o Str(Get(i.parent, "name", NoneVal))
                        \o " (sys_id: " \o Str(set_id) \o ") with variables: "
                        \o Join([k \in 1..Len(vs) |-> vs[k]["name"]], ", ")

\* the invocation is inside a network call: a request of the record client
\* or a completion call of the generative model
InNetworkCall(i) == i.pc \in {"await", "generate"}

\* C14: every network call of an invocation is a cooperative suspension
\* point: while one invocation is inside a request of the record client or
\* a completion call of the generative model, any other invocation in
\* flight whose response is due can resume on it; no invocation holds the
\* others for the duration of the call.
C14_NetworkCallsSuspend ==
    \A p, q \in Procs :
        (p # q /\ InNetworkCall(inv[p]) /\ inv[q].pc = "await") => ENABLED Respond(q)

\* the text the inner except of smart_incident returns for an exception message
ParseFailureText(i, msg) ==
    "Failed to parse AI response: " \o msg \o "\nRaw Response: " \o Text(i.raw)

\* C15: in smart_incident the parse-failure text is returned only when the
\* output of the model could not be parsed as JSON.  When the output parses
\* and the create call that follows fails, on missing configuration or on a
\* non-2xx status, the invocation returns that failure as the error text of
\* the top-level boundary, not as a parse failure.
C15_ParseFailureOnlyWhenUnparsable ==
    \A p \in Procs :
        LET i == inv[p]
            ended == i.name = "smart_incident" /\ i.pc = "done"
            refused == Len(i.got) = 1 /\ i.got[1].outcome = "status"
            messages == {ConfigError("create_record").msg, HTTPStatusError.msg,
                         TransportError.msg, JSONDecodeError.msg, AttributeError.msg}
        IN /\ (ended /\ i.calls = <<"create_record">> /\ (~configured \/ refused))
              => i.result.text
                   = "Error: " \o (IF ~configured THEN ConfigError("create_record").msg
                                   ELSE HTTPStatusError.msg)
           /\ (ended /\ i.result.text \in {ParseFailureText(i, m) : m \in messages})
              => ~JsonOk(ExtractJson(i.raw))

====
